---------------------------- MODULE Spec2Model ----------------------------
(***************************************************************************)
(* Model of arch/unitroot/critical_values/simulation/                      *)
(* adf_z_critical_values_simulation_joblib.py:                             *)
(*   - adf_simulation: the ADF z statistic of b simulated random walks,    *)
(*   - wrapper: the blocked, memory bounded runner around it,              *)
(*   - the __main__ driver: seed schedule, per trend experiment loop,      *)
(*     parallel fan out over the sample sizes, percentile reduction and    *)
(*     savez checkpoints.                                                  *)
(*                                                                         *)
(* Real numbers are exact rationals <<num, den>> (den > 0, lowest terms);  *)
(* <<0, 0>> is NaN.  The seeded normal stream of RandomState is a fixed    *)
(* function of (seed, position) with small integer values.                 *)
(***************************************************************************)
EXTENDS Integers, Sequences, FiniteSets, TLC

VARIABLES
    \* ---- one call of wrapper(n, trend, b, seed) ----
    wn, wtrend, wb, wseed,   \* the arguments
    memBytes,                \* 2 ** 20.0 * MAX_MEMORY_SIZE, the budget in bytes
    wpc,                     \* "start", "loop", "done", "error"
    werr,                    \* the exception raised, "" when none
    rng,                     \* RandomState: [seed, pos], pos = normals drawn so far
    remaining, res, finished, block_size,
    itersLeft,               \* iterations left in range(0, b, block_size)
    calls,                   \* the adf_simulation calls made so far, in order
    \* ---- the __main__ driver ----
    dpc,                     \* position of the driver
    seeds,                   \* the seed schedule
    trIdx,                   \* index into trends of the current trend
    iter,                    \* the loop variable i (0-based)
    results,                 \* the result tensor results[p][j][i+1] of the trend
    tasks,                   \* the dispatched tasks of the parallel call
    out,                     \* the list returned by the parallel call
    files,                   \* filename -> file content
    mapIsList                \* map() returns a list (Python 2), not an iterator

wvars == <<wn, wtrend, wb, wseed, memBytes, wpc, werr, rng, remaining, res,
           finished, block_size, itersLeft, calls>>
dvars == <<dpc, seeds, trIdx, iter, results, tasks, out, files, mapIsList>>
vars == <<wn, wtrend, wb, wseed, memBytes, wpc, werr, rng, remaining, res,
          finished, block_size, itersLeft, calls,
          dpc, seeds, trIdx, iter, results, tasks, out, files, mapIsList>>

---------------------------------------------------------------------------
(* Bounds of the model *)

\* largest replication count b handed to wrapper
MaxB == 3
\* number of seeds tried for one wrapper call
MaxSeed == 1

\* sample sizes handed to wrapper: negative, zero, degenerate and valid ones
NVals == {-1, 0, 1, 2, 3, 4, 5}
\* memory budgets in bytes: block sizes 0, 1, 2, ... for the sample sizes above
MemVals == {8, 16, 32, 64}
\* trend tags handed to wrapper; "x" is a tag adf_simulation does not know
TrendVals == {"nc", "c", "ct", "ctt", "x"}

---------------------------------------------------------------------------
(* Arithmetic helpers *)

Abs(a) == IF a < 0 THEN -a ELSE a

RECURSIVE GCD(_, _)
GCD(a, b) == IF b = 0 THEN Abs(a) ELSE GCD(b, a % Abs(b))

\* int(a / b) of Python for floats: truncation toward zero
TruncDiv(a, b) ==
    IF (a >= 0) = (b > 0) THEN Abs(a) \div Abs(b) ELSE -(Abs(a) \div Abs(b))

NaN == <<0, 0>>
Zero == <<0, 1>>

\* num / den of numpy floats, in lowest terms; a zero den only arises with a
\* zero num (xpx = 0 makes xpy = 0), and 0 / 0 is nan
Ratio(num, den) ==
    IF den = 0 THEN NaN
    ELSE LET g == GCD(num, den)
             s == IF den < 0 THEN -1 ELSE 1
         IN  <<s * (num \div g), s * (den \div g)>>

RECURSIVE SumTo(_, _)
\* sum of f[1] .. f[k]
SumTo(f, k) == IF k = 0 THEN 0 ELSE SumTo(f, k - 1) + f[k]

Dot(u, v) == SumTo([i \in 1..Len(u) |-> u[i] * v[i]], Len(u))

RECURSIVE GcdTo(_, _)
GcdTo(f, k) == IF k = 0 THEN 0 ELSE GCD(GcdTo(f, k - 1), f[k])

\* a vector divided by the gcd of its entries (direction kept)
Primitive(u) ==
    LET g == GcdTo(u, Len(u))
    IN  IF g = 0 THEN u ELSE [i \in 1..Len(u) |-> u[i] \div g]

---------------------------------------------------------------------------
(* numpy.random.RandomState *)

\* number of rows generated and dropped before the sample (the 50 of
\* standard_normal((n + 50, b)) and y[50:, :])
BurnIn == 50

\* The k-th (0-based) standard normal of a RandomState seeded with `seed`:
\* a fixed function of the seed and the position in the stream, with values
\* in {-2, -1, 1, 2}.
Draw(seed, k) ==
    LET v == (((k + 1) * 37 + ((k * k) % 101) * 53 + (seed % 11) * 17) % 101) % 4
    IN  IF v < 2 THEN v - 2 ELSE v - 1

\* rng = RandomState(); rng.seed(seed)
Seeded(seed) == [seed |-> seed, pos |-> 0]

\* rng.standard_normal((rows, cols)): the next rows * cols normals of the
\* stream, filled in C (row-major) order
standard_normal(g, rows, cols) ==
    [r \in 1..rows |-> [c \in 1..cols |->
        Draw(g.seed, g.pos + (r - 1) * cols + (c - 1))]]

\* the state of the generator after standard_normal((rows, cols))
Advance(g, rows, cols) == [g EXCEPT !.pos = @ + rows * cols]

---------------------------------------------------------------------------
(* adf_simulation *)

RECURSIVE CumSumTo(_, _)
\* the first k running sums of col
CumSumTo(col, k) ==
    IF k = 0 THEN <<>>
    ELSE LET prev == CumSumTo(col, k - 1)
         IN  Append(prev, (IF k = 1 THEN 0 ELSE prev[k - 1]) + col[k])

\* cumsum(y, axis=0) of one column
cumsum(col) == CumSumTo(col, Len(col))

\* col[lo:hi] of Python with 0 <= lo, as a sequence
Slice(col, lo, hi) ==
    IF hi <= lo THEN <<>> ELSE [i \in 1..(hi - lo) |-> col[lo + i]]

\* the columns of z: ones, arange(1, nobs + 1), tau ** 2.0; None for any
\* other tag
ZCols(trend, nobs) ==
    LET one == [i \in 1..nobs |-> 1]
        tau == [i \in 1..nobs |-> i]
        tau2 == [i \in 1..nobs |-> i * i]
    IN  CASE trend = "c" -> <<one>>
          [] trend = "ct" -> <<one, tau>>
          [] trend = "ctt" -> <<one, tau, tau2>>
          [] OTHER -> <<>>

\* <q, q> * v - <q, v> * q: v with its component along q removed, times <q, q>
ProjectOut(q, v) ==
    LET nq == Dot(q, q)
        qv == Dot(q, v)
    IN  [i \in 1..Len(v) |-> nq * v[i] - qv * q[i]]

IsZeroVec(v) == \A i \in 1..Len(v) : v[i] = 0

RECURSIVE OrthoBasis(_, _)
\* an orthogonal integer basis of the span of the first k columns of z
OrthoBasis(cols, k) ==
    IF k = 0 THEN <<>>
    ELSE LET Q == OrthoBasis(cols, k - 1)
             Red[j \in 0..Len(Q)] ==
                 IF j = 0 THEN cols[k] ELSE Primitive(ProjectOut(Q[j], Red[j - 1]))
             q == Red[Len(Q)]
         IN  IF IsZeroVec(q) THEN Q ELSE Append(Q, Primitive(q))

RECURSIVE Detrend(_, _, _, _)
\* lhs - dot(z, dot(pinv(z), lhs)) and the same for rhs: the residuals of the
\* least-squares projection on the columns of z, both times one common
\* positive factor (which cancels in gamma)
Detrend(Q, k, lhs, rhs) ==
    IF k = 0 THEN <<lhs, rhs>>
    ELSE LET p == Detrend(Q, k - 1, lhs, rhs)
             l == ProjectOut(Q[k], p[1])
             r == ProjectOut(Q[k], p[2])
             g == GCD(GcdTo(l, Len(l)), GcdTo(r, Len(r)))
         IN  IF g = 0 THEN <<l, r>>
             ELSE <<[i \in 1..Len(l) |-> l[i] \div g],
                    [i \in 1..Len(r) |-> r[i] \div g]>>

\* the statistic of one replication, from its column of normals; computed
\* exactly, so a z that fits rhs exactly gives xpx = 0 and nan
ColumnStat(n, trend, col) ==
    LET y == Slice(cumsum(col), BurnIn, Len(col))
        lhs0 == Slice(y, 1, Len(y))
        rhs0 == Slice(y, 0, Len(y) - 1)
        nobs == Len(lhs0)
        Q == OrthoBasis(ZCols(trend, nobs), Len(ZCols(trend, nobs)))
        d == Detrend(Q, Len(Q), lhs0, rhs0)
        xpy == Dot(d[2], d[1])
        xpx == Dot(d[2], d[2])
    IN  \* stat = nobs * (xpy / xpx - 1.0)
        Ratio(nobs * (xpy - xpx), xpx)

\* ones((nobs, 1)) / ones(nobs) with nobs = n - 1 < 0 raise ValueError
AdfRaises(n, trend) == n <= 0 /\ trend \in {"c", "ct", "ctt"}

\* adf_simulation(n, trend, b, rng): the vector of b statistics
adf_simulation(n, trend, b, g) ==
    LET m == standard_normal(g, n + BurnIn, b)
    IN  [c \in 1..b |-> ColumnStat(n, trend, [r \in 1..(n + BurnIn) |-> m[r][c]])]

---------------------------------------------------------------------------
(* wrapper *)

\* block_size = int(2 ** 20.0 * MAX_MEMORY_SIZE / (8.0 * n)), n # 0
BlockSize(n, mem) == TruncDiv(mem, 8 * n)

\* len(range(0, b, step)), step # 0
RangeLen(b, step) ==
    IF step > 0 THEN (IF b > 0 THEN (b + step - 1) \div step ELSE 0)
    ELSE (IF b < 0 THEN ((-b) + (-step) - 1) \div (-step) ELSE 0)

\* BlockCount without the test against remaining: every block is a full one
BlockCount_NoClamp(bs, rem) == bs

\* if block_size < remaining: count = block_size; else: count = remaining
BlockCount(bs, rem) == IF bs < rem THEN bs ELSE rem

\* zeros(b)
zeros(b) == [k \in 1..b |-> Zero]

\* the number of elements res[st:en] selects
SliceLen(len, st, en) ==
    LET hi == IF en < len THEN en ELSE len
    IN  IF hi > st THEN hi - st ELSE 0

\* res[st:en] = vals, for vals as long as the slice
SliceAssign(r, st, en, vals) ==
    [k \in 1..Len(r) |-> IF st < k /\ k <= en THEN vals[k - st] ELSE r[k]]

WInit ==
    /\ wn \in NVals
    /\ wtrend \in TrendVals
    /\ wb \in -1..MaxB
    /\ wseed \in 0..MaxSeed
    /\ memBytes \in MemVals
    /\ wpc = "start"
    /\ werr = ""
    /\ rng = Seeded(0)
    /\ remaining = 0
    /\ res = <<>>
    /\ finished = 0
    /\ block_size = 0
    /\ itersLeft = 0
    /\ calls = <<>>

\* lines 37-43: seed the generator, allocate res, compute the block size and
\* build range(0, b, block_size)
WrapperEnter ==
    /\ wpc = "start"
    /\ rng' = Seeded(wseed)
    /\ IF wb < 0
       THEN \* zeros(b): negative dimensions are not allowed
            /\ wpc' = "error" /\ werr' = "ValueError"
            /\ UNCHANGED <<remaining, res, finished, block_size, itersLeft>>
       ELSE /\ remaining' = wb
            /\ res' = zeros(wb)
            /\ finished' = 0
            /\ IF wn = 0
               THEN \* float division by zero
                    /\ wpc' = "error" /\ werr' = "ZeroDivisionError"
                    /\ UNCHANGED <<block_size, itersLeft>>
               ELSE /\ block_size' = BlockSize(wn, memBytes)
                    /\ IF block_size' = 0
                       THEN \* range() arg 3 must not be zero
                            /\ wpc' = "error" /\ werr' = "ValueError"
                            /\ UNCHANGED itersLeft
                       ELSE /\ wpc' = "loop" /\ werr' = ""
                            /\ itersLeft' = RangeLen(wb, block_size')
    /\ UNCHANGED <<wn, wtrend, wb, wseed, memBytes, calls>>
    /\ UNCHANGED dvars

\* lines 44-52: one iteration of the loop
WrapperBlock ==
    /\ wpc = "loop"
    /\ itersLeft > 0
    /\ LET count == BlockCount(block_size, remaining)
           st == finished
           en == finished + count
       IN  /\ calls' = Append(calls, [n |-> wn, trend |-> wtrend, b |-> count,
                                      pos |-> rng.pos, st |-> st, en |-> en])
           /\ IF AdfRaises(wn, wtrend) \/ count < 0
              THEN /\ wpc' = "error" /\ werr' = "ValueError"
                   /\ UNCHANGED <<rng, res, finished, remaining, itersLeft>>
              ELSE /\ rng' = Advance(rng, wn + BurnIn, count)
                   /\ IF SliceLen(Len(res), st, en) # count /\ count # 1
                      THEN \* could not broadcast input array into the slice
                           /\ wpc' = "error" /\ werr' = "ValueError"
                           /\ UNCHANGED <<res, finished, remaining, itersLeft>>
                      ELSE /\ res' = SliceAssign(res, st, en,
                                         adf_simulation(wn, wtrend, count, rng))
                           /\ finished' = finished + count
                           /\ remaining' = remaining - count
                           /\ itersLeft' = itersLeft - 1
                           /\ UNCHANGED <<wpc, werr>>
    /\ UNCHANGED <<wn, wtrend, wb, wseed, memBytes, block_size>>
    /\ UNCHANGED dvars

\* line 54: return res
WrapperReturn ==
    /\ wpc = "loop"
    /\ itersLeft = 0
    /\ wpc' = "done"
    /\ UNCHANGED <<wn, wtrend, wb, wseed, memBytes, werr, rng, remaining, res,
                   finished, block_size, itersLeft, calls>>
    /\ UNCHANGED dvars

RECURSIVE WrapperLoop(_, _, _, _, _, _, _)
\* the loop of wrapper run to its end: the returned res
WrapperLoop(n, trend, bs, left, g, rem, r) ==
    IF left = 0 THEN r
    ELSE LET count == BlockCount(bs, rem)
             st == Len(r) - rem
         IN  WrapperLoop(n, trend, bs, left - 1, Advance(g, n + BurnIn, count),
                         rem - count,
                         SliceAssign(r, st, st + count,
                                     adf_simulation(n, trend, count, g)))

\* wrapper(n, trend, b, seed) as a function of its arguments and the budget,
\* for arguments with which it returns (n > 0 or no iteration, b >= 0)
wrapper(n, trend, b, seed, mem) ==
    WrapperLoop(n, trend, BlockSize(n, mem), RangeLen(b, BlockSize(n, mem)),
                Seeded(seed), b, zeros(b))

---------------------------------------------------------------------------
(* numpy.percentile *)

IsNaN(x) == x[2] = 0

\* x < y for two numbers that are not NaN
RatLess(x, y) == x[1] * y[2] < y[1] * x[2]

RECURSIVE Insert(_, _)
Insert(s, x) ==
    IF s = <<>> THEN <<x>>
    ELSE IF RatLess(x, Head(s)) THEN <<x>> \o s
         ELSE <<Head(s)>> \o Insert(Tail(s), x)

RECURSIVE Sorted(_, _)
\* the first k entries of x in ascending order
Sorted(x, k) == IF k = 0 THEN <<>> ELSE Insert(Sorted(x, k - 1), x[k])

\* percentile(x, q) for one q given in half percents (q = h / 2): linear
\* interpolation between the two nearest order statistics; NaN when x holds
\* one or is empty
Quantile(x, h) ==
    IF Len(x) = 0 \/ \E k \in 1..Len(x) : IsNaN(x[k]) THEN NaN
    ELSE LET s == Sorted(x, Len(x))
             at == h * (Len(x) - 1)
             lo == at \div 200
             \* the fractional part of the index, fr / of in lowest terms
             g == GCD(at % 200, 200)
             fr == (at % 200) \div g
             of == 200 \div g
         IN  IF fr = 0 THEN s[lo + 1]
             ELSE Ratio(s[lo + 1][1] * s[lo + 2][2] * (of - fr)
                          + s[lo + 2][1] * s[lo + 1][2] * fr,
                        of * s[lo + 1][2] * s[lo + 2][2])

\* percentile(x, percentiles)
percentile(x, qs) == [k \in 1..Len(qs) |-> Quantile(x, qs[k])]

---------------------------------------------------------------------------
(* The configuration of the driver, scaled down *)

\* number of workers
NUM_JOBS == 2
\* number of repetitions (500 in the source)
EX_NUM == 5
\* number of simulations per exercise (200000 in the source)
EX_SIZE == 2
\* approximately controls memory use, in MiB
MAX_MEMORY_SIZE == 100
\* 2 ** 20.0
MiB == 1048576
\* a checkpoint is saved when i % SaveEvery = 0 (i % 50 in the source)
SaveEvery == 2

trends == <<"nc", "c", "ct", "ctt">>
\* the sample sizes, largest first (T = T[::-1]); 2000 ... 20 in the source
T == <<7, 6, 5>>
\* the percentile grid in half percents: arange(0.5, 100.0, 0.5) in the source
percentiles == <<50, 100, 150>>

\* the raw k-th (0-based) integer of a RandomState seeded with `seed`
RawInt(seed, k) == (k + 1) * 110351 + 12345 + seed

\* rng.random_integers(low, high, size=size) of a generator in state g
random_integers(g, low, high, size) ==
    [i \in 1..size |-> low + (RawInt(g.seed, g.pos + i - 1) % (high - low + 1))]

\* 'adf_z_' + tr + '.npz'
filename(tr) == tr

NoFile == [status |-> "absent", trend |-> "", results |-> <<>>,
           percentiles |-> <<>>, T |-> <<>>]
\* the file while savez is writing it: opened for writing, not yet closed
PartialFile == [status |-> "partial", trend |-> "", results |-> <<>>,
                percentiles |-> <<>>, T |-> <<>>]
\* savez(filename, trend=tr, results=results, percentiles=percentiles, T=T)
\* once it has returned
SavedFile(tr, r) == [status |-> "complete", trend |-> tr, results |-> r,
                     percentiles |-> percentiles, T |-> T]

\* zeros((len(percentiles), len(T), EX_NUM)) * nan
NanTensor ==
    [p \in 1..Len(percentiles) |-> [j \in 1..Len(T) |-> [e \in 1..EX_NUM |-> NaN]]]

\* TaskOf with a seed of its own for every sample size
TaskOf_SeedPerSize(j, tr, i) ==
    [n |-> T[j], trend |-> tr, b |-> EX_SIZE,
     seed |-> seeds[((i + j - 1) % EX_NUM) + 1], st |-> "pending", ret |-> <<>>]

\* the argument tuple of p_func(t, tr, EX_SIZE, seed=seeds[i]) for t = T[j]
TaskOf(j, tr, i) ==
    [n |-> T[j], trend |-> tr, b |-> EX_SIZE, seed |-> seeds[i + 1],
     st |-> "pending", ret |-> <<>>]

\* what a worker returns for the task
RunTask(t) == wrapper(t.n, t.trend, t.b, t.seed, MiB * MAX_MEMORY_SIZE)

\* Gather in the reverse of the order of the tasks
Gather_Reversed(ts) == [j \in 1..Len(ts) |-> ts[Len(ts) + 1 - j].ret]

\* out: the results of the tasks in the order of the tasks
Gather(ts) == [j \in 1..Len(ts) |-> ts[j].ret]

\* SetColumn that fills only the first sample size of the column
SetColumn_FirstSizeOnly(r, i, o) ==
    [p \in 1..Len(percentiles) |-> [j \in 1..Len(T) |-> [e \in 1..EX_NUM |->
        IF e = i + 1 /\ j = 1 THEN percentile(o[j], percentiles)[p]
        ELSE r[p][j][e]]]]

\* results[:, :, i] = array(quantiles).T, quantiles[j] = percentile(out[j], ...)
SetColumn(r, i, o) ==
    [p \in 1..Len(percentiles) |-> [j \in 1..Len(T) |-> [e \in 1..EX_NUM |->
        IF e = i + 1 THEN percentile(o[j], percentiles)[p] ELSE r[p][j][e]]]]

\* SaveDue on the count of completed iterations instead of the index
SaveDue_OnCount(i) == (i + 1) % SaveEvery = 0

\* the test of line 126
SaveDue(i) == i % SaveEvery = 0

Running(ts) == {j \in 1..Len(ts) : ts[j].st = "running"}

\* JoinReady that takes a failed task for a finished one
JoinReady_IgnoresFailure(ts) ==
    \A j \in 1..Len(ts) : ts[j].st \in {"done", "failed"}

\* parallel(...) returns its list once every task has returned
JoinReady(ts) == \A j \in 1..Len(ts) : ts[j].st = "done"

DInit ==
    /\ dpc = "start"
    /\ seeds = <<>>
    /\ trIdx = 1
    /\ iter = 0
    /\ results = <<>>
    /\ tasks = <<>>
    /\ out = <<>>
    /\ files = [tr \in {trends[k] : k \in 1..Len(trends)} |-> NoFile]
    /\ mapIsList \in BOOLEAN

\* lines 104-105
DrawSeeds ==
    /\ dpc = "start"
    /\ seeds' = random_integers(Seeded(0), 0, 2147483646, EX_NUM)
    /\ dpc' = "trend"
    /\ UNCHANGED <<trIdx, iter, results, tasks, out, files, mapIsList>>
    /\ UNCHANGED wvars

\* lines 111-113: the next trend, or the end of the script
BeginTrend ==
    /\ dpc = "trend"
    /\ IF trIdx <= Len(trends)
       THEN /\ results' = NanTensor
            /\ iter' = 0
            /\ dpc' = "dispatch"
       ELSE /\ dpc' = "exit"
            /\ UNCHANGED <<results, iter>>
    /\ UNCHANGED <<seeds, trIdx, tasks, out, files, mapIsList>>
    /\ UNCHANGED wvars

\* line 120: the call of parallel hands it one task per sample size
Dispatch ==
    /\ dpc = "dispatch"
    /\ tasks' = [j \in 1..Len(T) |-> TaskOf(j, trends[trIdx], iter)]
    /\ dpc' = "parallel"
    /\ UNCHANGED <<seeds, trIdx, iter, results, out, files, mapIsList>>
    /\ UNCHANGED wvars

\* a worker picks up the next task of the generator (at most NUM_JOBS run)
TaskStart(j) ==
    /\ dpc = "parallel"
    /\ tasks[j].st = "pending"
    /\ \A k \in 1..(j - 1) : tasks[k].st # "pending"
    /\ Cardinality(Running(tasks)) < NUM_JOBS
    /\ tasks' = [tasks EXCEPT ![j].st = "running"]
    /\ UNCHANGED <<dpc, seeds, trIdx, iter, results, out, files, mapIsList>>
    /\ UNCHANGED wvars

\* a worker finishes wrapper(n, trend, b, seed)
TaskDone(j) ==
    /\ dpc = "parallel"
    /\ tasks[j].st = "running"
    /\ tasks' = [tasks EXCEPT ![j].st = "done", ![j].ret = RunTask(tasks[j])]
    /\ UNCHANGED <<dpc, seeds, trIdx, iter, results, out, files, mapIsList>>
    /\ UNCHANGED wvars

\* the task of a worker raises
TaskFail(j) ==
    /\ dpc = "parallel"
    /\ tasks[j].st = "running"
    /\ tasks' = [tasks EXCEPT ![j].st = "failed"]
    /\ UNCHANGED <<dpc, seeds, trIdx, iter, results, out, files, mapIsList>>
    /\ UNCHANGED wvars

\* line 120: parallel re-raises the exception of a task; nothing catches it
ParallelRaise ==
    /\ dpc = "parallel"
    /\ \E j \in 1..Len(tasks) : tasks[j].st = "failed"
    /\ dpc' = "failed"
    /\ UNCHANGED <<seeds, trIdx, iter, results, tasks, out, files, mapIsList>>
    /\ UNCHANGED wvars

\* lines 120-122: parallel returns once every task is done; the column is
\* set.  With map() an iterator, array(quantiles) is no matrix and the
\* assignment of line 122 raises TypeError, which nothing catches.
WriteColumn ==
    /\ dpc = "parallel"
    /\ JoinReady(tasks)
    /\ out' = Gather(tasks)
    /\ IF mapIsList
       THEN /\ results' = SetColumn(results, iter, out')
            /\ dpc' = "check"
       ELSE /\ results' = results
            /\ dpc' = "failed"
    /\ UNCHANGED <<seeds, trIdx, iter, tasks, files, mapIsList>>
    /\ UNCHANGED wvars

\* the end of the body of the for loop over i
LoopStep ==
    IF iter + 1 < EX_NUM
    THEN iter' = iter + 1 /\ dpc' = "dispatch"
    ELSE iter' = iter /\ dpc' = "final"

\* line 126, test false
SkipSave ==
    /\ dpc = "check"
    /\ ~SaveDue(iter)
    /\ LoopStep
    /\ UNCHANGED <<seeds, trIdx, results, tasks, out, files, mapIsList>>
    /\ UNCHANGED wvars

\* lines 126-127: savez opens the file for writing
SaveBegin ==
    /\ dpc = "check"
    /\ SaveDue(iter)
    /\ files' = [files EXCEPT ![filename(trends[trIdx])] = PartialFile]
    /\ dpc' = "saving"
    /\ UNCHANGED <<seeds, trIdx, iter, results, tasks, out, mapIsList>>
    /\ UNCHANGED wvars

\* lines 127-128: savez has written the arrays and closed the file
SaveEnd ==
    /\ dpc = "saving"
    /\ files' = [files EXCEPT ![filename(trends[trIdx])] =
                                  SavedFile(trends[trIdx], results)]
    /\ LoopStep
    /\ UNCHANGED <<seeds, trIdx, results, tasks, out, mapIsList>>
    /\ UNCHANGED wvars

\* line 130: savez opens the file for writing
FinalSaveBegin ==
    /\ dpc = "final"
    /\ files' = [files EXCEPT ![filename(trends[trIdx])] = PartialFile]
    /\ dpc' = "finalsaving"
    /\ UNCHANGED <<seeds, trIdx, iter, results, tasks, out, mapIsList>>
    /\ UNCHANGED wvars

\* lines 130-131: savez has written the arrays and closed the file
FinalSaveEnd ==
    /\ dpc = "finalsaving"
    /\ files' = [files EXCEPT ![filename(trends[trIdx])] =
                                  SavedFile(trends[trIdx], results)]
    /\ trIdx' = trIdx + 1
    /\ dpc' = "trend"
    /\ UNCHANGED <<seeds, iter, results, tasks, out, mapIsList>>
    /\ UNCHANGED wvars

\* the process is killed
Abort ==
    /\ dpc \notin {"idle", "exit", "failed", "aborted"}
    /\ dpc' = "aborted"
    /\ UNCHANGED <<seeds, trIdx, iter, results, tasks, out, files, mapIsList>>
    /\ UNCHANGED wvars

---------------------------------------------------------------------------
(* Specifications *)

\* no driver while one call of wrapper is studied
DIdle ==
    /\ dpc = "idle"
    /\ seeds = <<>>
    /\ trIdx = 1
    /\ iter = 0
    /\ results = <<>>
    /\ tasks = <<>>
    /\ out = <<>>
    /\ files = <<>>
    /\ mapIsList = TRUE

\* the calls of wrapper run inside the workers (RunTask)
WIdle ==
    /\ wn = 0 /\ wtrend = "" /\ wb = 0 /\ wseed = 0 /\ memBytes = 0
    /\ wpc = "idle" /\ werr = "" /\ rng = Seeded(0)
    /\ remaining = 0 /\ res = <<>> /\ finished = 0 /\ block_size = 0
    /\ itersLeft = 0 /\ calls = <<>>

WNext == WrapperEnter \/ WrapperBlock \/ WrapperReturn

InitWrapper == WInit /\ DIdle

SpecWrapper == InitWrapper /\ [][WNext]_vars

DNext ==
    \/ DrawSeeds
    \/ BeginTrend
    \/ Dispatch
    \/ \E j \in 1..Len(T) : TaskStart(j)
    \/ \E j \in 1..Len(T) : TaskDone(j)
    \/ \E j \in 1..Len(T) : TaskFail(j)
    \/ ParallelRaise
    \/ WriteColumn
    \/ SkipSave
    \/ SaveBegin
    \/ SaveEnd
    \/ FinalSaveBegin
    \/ FinalSaveEnd
    \/ Abort

InitDriver == DInit /\ WIdle

SpecDriver == InitDriver /\ [][DNext]_vars

---------------------------------------------------------------------------
(* Properties of wrapper, checked under SpecWrapper *)

Min(a, b) == IF a < b THEN a ELSE b

CeilDiv(a, b) == (a + b - 1) \div b

\* the generator as it was when the k-th call of adf_simulation was made
CallRng(k) == [seed |-> wseed, pos |-> calls[k].pos]

\* a trend tag outside the four, a non-positive n or a non-positive b
InvalidConfig ==
    \/ wtrend \notin {trends[k] : k \in 1..Len(trends)}
    \/ wn <= 0
    \/ wb <= 0

\* C1: for fixed n, trend, b and seed the vector wrapper returns is the same
\* for every positive block size (every memory budget).
C1_BlockSizeIndependent ==
    (wpc = "done" /\ wn >= 1 /\ wb >= 1 /\ ~InvalidConfig)
        => \A m \in MemVals :
               BlockSize(wn, m) >= 1 => res = wrapper(wn, wtrend, wb, wseed, m)

\* C2: for b >= 1 and a block size >= 1 the loop makes ceil(b / block_size)
\* calls of adf_simulation, each for count = min(block_size, remaining) >= 1
\* replications written to res[finished : finished + count]; the slices are
\* contiguous, disjoint and cover 0 .. b-1; at return finished = b and
\* remaining = 0.
C2_BlocksCoverResult ==
    (wpc # "start" /\ wb >= 1 /\ block_size >= 1)
        => /\ wpc \in {"loop", "done"}
           /\ Len(calls) + itersLeft = CeilDiv(wb, block_size)
           /\ \A k \in 1..Len(calls) :
                 /\ calls[k].st = (IF k = 1 THEN 0 ELSE calls[k - 1].en)
                 /\ calls[k].b = Min(block_size, wb - calls[k].st)
                 /\ calls[k].b >= 1
                 /\ calls[k].en = calls[k].st + calls[k].b
                 /\ calls[k].en <= wb
                 /\ \A x \in (calls[k].st + 1)..calls[k].en :
                       res[x] = adf_simulation(wn, wtrend, calls[k].b,
                                               CallRng(k))[x - calls[k].st]
           /\ finished = (IF calls = <<>> THEN 0 ELSE calls[Len(calls)].en)
           /\ remaining = wb - finished
           /\ Len(res) = wb
           /\ wpc = "done" => /\ Len(calls) = CeilDiv(wb, block_size)
                              /\ finished = wb
                              /\ remaining = 0

\* wrapper has returned after several blocks, the last one a short one
C2_Witness ==
    /\ wpc = "done"
    /\ Len(calls) >= 2
    /\ calls[Len(calls)].b < block_size
    /\ finished = wb

\* the block size resolves to zero or to a negative number
NonPositiveBlock == wn = 0 \/ BlockSize(wn, memBytes) <= 0

\* C7: when the block size resolves to zero or a negative number, wrapper
\* raises before adf_simulation is called once and never returns a vector.
C7_NonPositiveBlockRaises ==
    (wb >= 1 /\ NonPositiveBlock) => (wpc # "done" /\ calls = <<>>)

\* C8: an invalid trend tag, sample size or replication count is rejected
\* before any draw: adf_simulation is not called and wrapper does not return.
C8_InvalidConfigRejected ==
    InvalidConfig => (wpc # "done" /\ calls = <<>>)

---------------------------------------------------------------------------
(* Properties of the driver, checked under SpecDriver *)

Trend == trends[trIdx]

\* the file of the trend the driver is at
CurFile == files[filename(Trend)]

\* the seed schedule the script draws
SeedSchedule == random_integers(Seeded(0), 0, 2147483646, EX_NUM)

\* what wrapper returns for sample size T[j] in iteration e (1-based) of the
\* k-th trend
ExpectedOut ==
    [k \in 1..Len(trends) |-> [j \in 1..Len(T) |-> [e \in 1..EX_NUM |->
        wrapper(T[j], trends[k], EX_SIZE, SeedSchedule[e], MiB * MAX_MEMORY_SIZE)]]]

\* the percentiles of iteration e (1-based) of the k-th trend
Expected ==
    [k \in 1..Len(trends) |-> [p \in 1..Len(percentiles) |->
        [j \in 1..Len(T) |-> [e \in 1..EX_NUM |->
            Quantile(ExpectedOut[k][j][e], percentiles[p])]]]]

\* tensor r holds exactly the first u iterations of the k-th trend
IsPrefix(r, k, u) ==
    \A p \in 1..Len(percentiles) : \A j \in 1..Len(T) : \A e \in 1..EX_NUM :
        r[p][j][e] = (IF e <= u THEN Expected[k][p][j][e] ELSE NaN)

\* column e (1-based) of tensor r holds only the missing sentinel
ColumnMissing(r, e) ==
    \A p \in 1..Len(percentiles) : \A j \in 1..Len(T) : r[p][j][e] = NaN

\* C3: every checkpoint is a prefix snapshot: the columns up to the iteration
\* it was written after hold the values of their iterations, all later
\* columns are NaN, and no column is partly filled.
C3_CheckpointIsPrefix ==
    \A k \in 1..Len(trends) :
        LET f == files[filename(trends[k])]
        IN  f.status = "complete"
                => /\ f.trend = trends[k]
                   /\ \E u \in 1..EX_NUM : IsPrefix(f.results, k, u)
                   /\ (k = trIdx /\ dpc \notin {"trend", "exit"})
                          => \E u \in 1..(iter + 1) : IsPrefix(f.results, k, u)

\* a checkpoint of more than one and less than all iterations is on disk
C3_Witness ==
    /\ dpc \in {"dispatch", "parallel"}
    /\ CurFile.status = "complete"
    /\ IsPrefix(CurFile.results, trIdx, SaveEvery + 1)
    /\ SaveEvery + 1 < EX_NUM

\* C4: if the process is aborted at any point, the checkpoint file is never
\* left partially written.
C4_CheckpointNeverPartial ==
    dpc = "aborted"
        => \A k \in 1..Len(trends) : files[filename(trends[k])].status # "partial"

\* the number of columns of the last checkpoint taken before iteration i
LastSaved(i) == SaveEvery * ((i - 1) \div SaveEvery) + 1

\* C5: when a task of iteration i fails, no entry of column i is written, the
\* failure reaches the caller, and the checkpoint on disk is the complete one
\* written before, holding every checkpointed iteration.
C5_FailureAbortsIteration ==
    (dpc # "start" /\ \E j \in 1..Len(tasks) : tasks[j].st = "failed")
        => /\ dpc \in {"parallel", "failed", "aborted"}
           /\ ColumnMissing(results, iter + 1)
           /\ IF iter = 0 THEN CurFile = NoFile
              ELSE /\ CurFile.status = "complete"
                   /\ IsPrefix(CurFile.results, trIdx, LastSaved(iter))
           /\ \A k \in 1..(trIdx - 1) :
                 /\ files[filename(trends[k])].status = "complete"
                 /\ IsPrefix(files[filename(trends[k])].results, k, EX_NUM)

\* the failure of a task has ended the script after a checkpoint was written
C5_Witness ==
    /\ dpc = "failed"
    /\ iter > SaveEvery
    /\ CurFile.status = "complete"
    /\ \E j \in 1..Len(tasks) : tasks[j].st = "failed"
    /\ \E j \in 1..Len(tasks) : tasks[j].st = "done"

\* C6 as stated: each time the count of completed iterations reaches a
\* multiple of K, a checkpoint holding the current tensor is written before the
\* next iteration starts; at completion the file holds all EX_NUM iterations.
C6_SavedOnCountMultiple ==
    /\ (dpc \in {"dispatch", "parallel"} /\ iter > 0 /\ iter % SaveEvery = 0)
           => (CurFile.status = "complete" /\ CurFile.results = results)
    /\ \A k \in 1..(trIdx - 1) :
           /\ files[filename(trends[k])].status = "complete"
           /\ IsPrefix(files[filename(trends[k])].results, k, EX_NUM)

\* C6 amended: a checkpoint holding the current tensor is written after every
\* iteration whose 0-based index is a multiple of K (completed count 1, K+1,
\* 2K+1, ...) before the next iteration starts, and after the last iteration;
\* at completion the file holds all EX_NUM iterations.
C6_SavedOnIndexMultiple ==
    /\ (dpc \in {"dispatch", "parallel"} /\ iter > 0)
           => /\ CurFile.status = "complete"
              /\ IsPrefix(CurFile.results, trIdx, LastSaved(iter))
              /\ (iter - 1) % SaveEvery = 0 => CurFile.results = results
    /\ \A k \in 1..(trIdx - 1) :
           /\ files[filename(trends[k])].status = "complete"
           /\ IsPrefix(files[filename(trends[k])].results, k, EX_NUM)

\* a second trend is under way: the first one is complete, and the checkpoint
\* after the iteration of index K has just been written
C6_Witness ==
    /\ trIdx = 2
    /\ dpc = "dispatch"
    /\ iter = SaveEvery + 1
    /\ CurFile.results = results

\* C9: the seed schedule has EX_NUM entries, is drawn before the first
\* iteration and never changes; every task of iteration i gets seeds[i].
C9_SeedSchedule ==
    /\ [](dpc \notin {"start", "aborted"} => Len(seeds) = EX_NUM)
    /\ [](seeds = <<>> \/ Len(seeds) = EX_NUM)
    /\ [][seeds # <<>> => seeds' = seeds]_vars
    /\ [](dpc = "parallel"
            => \A j \in 1..Len(tasks) : /\ tasks[j].seed = seeds[iter + 1]
                                        /\ tasks[j].n = T[j]
                                        /\ tasks[j].trend = Trend)

\* the tasks of a later iteration are running, one per sample size
C9_Witness ==
    /\ dpc = "parallel"
    /\ iter >= 1
    /\ Len(tasks) = Len(T)
    /\ \A j \in 1..Len(tasks) : tasks[j].st \in {"running", "done"}
    /\ seeds[iter + 1] # seeds[iter]

\* column e (1-based) of r is the reduction of the returns of the tasks
ColumnOfTasks(r, e) ==
    \A p \in 1..Len(percentiles) : \A j \in 1..Len(T) :
        r[p][j][e] = Quantile(tasks[j].ret, percentiles[p])

\* C10: dispatch(i), all tasks of i done, column i written, checkpoint of i
\* when due, dispatch(i+1), in this order under every completion order of the
\* tasks: column i is not written before every task is done, the result for
\* T[j] goes to index j and nowhere else, and no task of i+1 starts before
\* column i and its due checkpoint are written.
C10_IterationOrder ==
    /\ [](dpc \in {"dispatch", "parallel"} => ColumnMissing(results, iter + 1))
    /\ [](dpc \in {"check", "saving", "final", "finalsaving"}
            => /\ \A j \in 1..Len(tasks) : tasks[j].st = "done" /\ tasks[j].n = T[j]
               /\ \A j \in 1..Len(tasks) :
                     tasks[j].ret = ExpectedOut[trIdx][j][iter + 1]
               /\ ColumnOfTasks(results, iter + 1))
    /\ [](dpc \in {"dispatch", "parallel"} /\ iter > 0
            => /\ IsPrefix(results, trIdx, iter)
               /\ SaveDue(iter - 1)
                     => (CurFile.status = "complete" /\ CurFile.results = results))
    /\ [][(results' # results /\ dpc # "trend")
            => /\ dpc = "parallel" /\ dpc' = "check"
               /\ \A j \in 1..Len(tasks) : tasks[j].st = "done"
               /\ \A p \in 1..Len(percentiles) : \A j \in 1..Len(T) :
                     \A e \in 1..EX_NUM :
                         e # iter + 1 => results'[p][j][e] = results[p][j][e]]_vars

\* every task of a later iteration is done and its column has been written
C10_Witness ==
    /\ dpc = "check"
    /\ iter >= 1
    /\ ColumnOfTasks(results, iter + 1)
    /\ ~ColumnMissing(results, iter + 1)
    /\ out[1] # out[2]

===========================================================================
